---- MODULE Spec2Model ----
(***************************************************************************)
(* Model of src/providers/bedrock.py: the module-level credential          *)
(* validation that runs at import, get_bedrock_client and get_chat_model.  *)
(*                                                                         *)
(* Python strings are sequences of one-character strings, so that          *)
(* str.lower() and the f-string 'us.{...}' are computed, not assumed.      *)
(* An Optional value is <<>> (None) or <<x>>.                              *)
(***************************************************************************)
EXTENDS Integers, Sequences, FiniteSets, TLC

VARIABLES
    environ,                \* os.environ: a function from the set names to values
    environ0,               \* os.environ when the process started (history)
    importState,            \* "init", "loaded" or "failed": import of the module
    importError,            \* exception type raised by the import, or "none"
    AWS_REGION,             \* module globals, lines 31-40
    AWS_LOGIN_STRATEGY,
    AWS_PROFILE,
    AWS_ACCESS_KEY_ID,
    AWS_SECRET_ACCESS_KEY,
    AWS_SESSION_TOKEN,
    heap,                   \* number of Session/client objects allocated so far
    pc,                     \* per thread: position in the call it is running
    frame,                  \* per thread: arguments and locals of the running call
    ret                     \* per thread: what the finished call returned or raised

globals == <<AWS_REGION, AWS_LOGIN_STRATEGY, AWS_PROFILE, AWS_ACCESS_KEY_ID,
             AWS_SECRET_ACCESS_KEY, AWS_SESSION_TOKEN>>
process == <<environ, environ0, importState, importError>>
threads == <<heap, pc, frame, ret>>
vars == <<process, globals, threads>>

----------------------------------------------------------------------------
(* Strings *)

None == <<>>
Some(x) == <<x>>

UpperToLower ==
    ("A" :> "a") @@ ("B" :> "b") @@ ("C" :> "c") @@ ("D" :> "d") @@ ("E" :> "e") @@
    ("F" :> "f") @@ ("G" :> "g") @@ ("H" :> "h") @@ ("I" :> "i") @@ ("J" :> "j") @@
    ("K" :> "k") @@ ("L" :> "l") @@ ("M" :> "m") @@ ("N" :> "n") @@ ("O" :> "o") @@
    ("P" :> "p") @@ ("Q" :> "q") @@ ("R" :> "r") @@ ("S" :> "s") @@ ("T" :> "t") @@
    ("U" :> "u") @@ ("V" :> "v") @@ ("W" :> "w") @@ ("X" :> "x") @@ ("Y" :> "y") @@
    ("Z" :> "z")

\* str.lower(), line 32
Lower(s) ==
    [i \in 1..Len(s) |-> IF s[i] \in DOMAIN UpperToLower THEN UpperToLower[s[i]] ELSE s[i]]

\* truth value of a str: non-empty
Truthy(s) == Len(s) > 0

----------------------------------------------------------------------------
(* The environment *)

\* os.getenv(name, default)
Getenv(name, default) == IF name \in DOMAIN environ THEN environ[name] ELSE default

\* os.environ.pop(name, None) for each name of names
Pop(env, names) == [n \in DOMAIN env \ names |-> env[n]]

\* AwsLoginStrategyEnum, lines 25-29
AWS_SSO == <<"a", "w", "s", "_", "s", "s", "o">>
AWS_KEYS == <<"a", "w", "s", "_", "k", "e", "y", "s">>
AWS_IAM_ROLE == <<"a", "w", "s", "_", "i", "a", "m", "_", "r", "o", "l", "e">>
AwsLoginStrategyEnum == {AWS_SSO, AWS_KEYS, AWS_IAM_ROLE}

DefaultRegion == <<"u", "s", "-", "e", "a", "s", "t", "-", "1">>

\* exception raised by lines 43, 47 and 54
ValueError == "ValueError"

\* line 32: the selector, lower-cased, 'aws_keys' when the variable is unset
ReadLoginStrategy == Lower(Getenv("AWS_LOGIN_STRATEGY", AWS_KEYS))

\* a load that accepts any selector
InvalidStrategyUnchecked(strategy) == FALSE

\* line 42
InvalidStrategy(strategy) == strategy \notin AwsLoginStrategyEnum

\* a key check that forgets the session token
MissingCredentialsNoToken(strategy, profile, keyId, secret, token) ==
    \/ /\ strategy = AWS_KEYS
       /\ (~Truthy(keyId) \/ ~Truthy(secret))
    \/ /\ strategy = AWS_SSO
       /\ ~Truthy(profile)

\* lines 45-47 and 52-54: the strategy's required values, one of them empty
MissingCredentials(strategy, profile, keyId, secret, token) ==
    \/ /\ strategy = AWS_KEYS
       /\ (~Truthy(keyId) \/ ~Truthy(secret) \/ ~Truthy(token))
    \/ /\ strategy = AWS_SSO
       /\ ~Truthy(profile)

\* a clean-up that leaves the bearer token in place
PoppedNamesKeepBearer(strategy) ==
    IF strategy = AWS_KEYS
    THEN {"AWS_PROFILE"}
    ELSE IF strategy = AWS_SSO
    THEN {"AWS_ACCESS_KEY_ID", "AWS_SECRET_ACCESS_KEY", "AWS_SESSION_TOKEN"}
    ELSE {}

\* lines 49-50 and 57-61: the variables popped once the strategy is validated
PoppedNames(strategy) ==
    IF strategy = AWS_KEYS
    THEN {"AWS_PROFILE", "AWS_BEARER_TOKEN_BEDROCK"}
    ELSE IF strategy = AWS_SSO
    THEN {"AWS_ACCESS_KEY_ID", "AWS_SECRET_ACCESS_KEY", "AWS_SESSION_TOKEN",
          "AWS_BEARER_TOKEN_BEDROCK"}
    ELSE {}

\* a clean-up that runs before the check
EnvironAfterPopsFirst(raises, strategy) == Pop(environ, PoppedNames(strategy))

\* os.environ after lines 42-61: nothing is popped before the selected
\* strategy's check has passed
EnvironAfter(raises, strategy) ==
    IF raises THEN environ ELSE Pop(environ, PoppedNames(strategy))

\* Lines 31-61, evaluated once when the module is imported.  The globals are
\* bound first (lines 31-40); a raise leaves os.environ as it is, because
\* each strategy's pops follow its check and only one strategy is selected.
ImportModule ==
    /\ importState = "init"
    /\ LET region == Getenv("AWS_REGION", DefaultRegion)
           strategy == ReadLoginStrategy
           profile == Getenv("AWS_PROFILE", <<>>)
           keyId == Getenv("AWS_ACCESS_KEY_ID", <<>>)
           secret == Getenv("AWS_SECRET_ACCESS_KEY", <<>>)
           token == Getenv("AWS_SESSION_TOKEN", <<>>)
           raises ==
               \/ InvalidStrategy(strategy)
               \/ MissingCredentials(strategy, profile, keyId, secret, token)
       IN  /\ AWS_REGION' = region
           /\ AWS_LOGIN_STRATEGY' = strategy
           /\ AWS_PROFILE' = profile
           /\ AWS_ACCESS_KEY_ID' = keyId
           /\ AWS_SECRET_ACCESS_KEY' = secret
           /\ AWS_SESSION_TOKEN' = token
           /\ importState' = IF raises THEN "failed" ELSE "loaded"
           /\ importError' = IF raises THEN ValueError ELSE "none"
           /\ environ' = EnvironAfter(raises, strategy)
    /\ UNCHANGED <<environ0, threads>>

----------------------------------------------------------------------------
(* Objects *)

\* the configuration the docstring of get_bedrock_client describes
ClientConfigFiveAttempts ==
    [retries |-> [max_attempts |-> 5, mode |-> "adaptive"], read_timeout |-> 60]

\* botocore Config(...) of lines 100-103
ClientConfig ==
    [retries |-> [max_attempts |-> 10, mode |-> "adaptive"], read_timeout |-> 60]

\* an object kept and handed out again instead of a new one
NewIdCached(live) == 1

\* id of a newly allocated object: one no live object has
NewId(live) == CHOOSE i \in 1..(Cardinality(live) + 1) : i \notin live

\* boto3.Session(region_name=..., **credentials)
Session(id, region_name, credentials) ==
    [id |-> id, region_name |-> region_name, credentials |-> credentials]

\* branches without the IAM role one
SessionBranchesNoIam(id, region_name) ==
    IF AWS_LOGIN_STRATEGY = AWS_SSO
    THEN [session |-> Some(Session(id, region_name,
                         [profile_name |-> AWS_PROFILE])),
          logged |-> <<"Using SSO Profile-based authentication with AWS Bedrock">>]
    ELSE IF AWS_LOGIN_STRATEGY = AWS_KEYS
    THEN [session |-> Some(Session(id, region_name,
                         [aws_access_key_id |-> AWS_ACCESS_KEY_ID,
                          aws_secret_access_key |-> AWS_SECRET_ACCESS_KEY,
                          aws_session_token |-> AWS_SESSION_TOKEN])),
          logged |-> <<"Using AWS keys for authentication with AWS Bedrock">>]
    ELSE [session |-> None, logged |-> <<>>]

\* lines 76-96: the log line and the Session of the branch taken; the three
\* ifs are sequential, so a later match would overwrite an earlier one
SessionBranches(id, region_name) ==
    LET s0 == [session |-> None, logged |-> <<>>]
        s1 == IF AWS_LOGIN_STRATEGY = AWS_SSO
              THEN [session |-> Some(Session(id, region_name,
                                   [profile_name |-> AWS_PROFILE])),
                    logged |-> Append(s0.logged,
                        "Using SSO Profile-based authentication with AWS Bedrock")]
              ELSE s0
        s2 == IF AWS_LOGIN_STRATEGY = AWS_KEYS
              THEN [session |-> Some(Session(id, region_name,
                                   [aws_access_key_id |-> AWS_ACCESS_KEY_ID,
                                    aws_secret_access_key |-> AWS_SECRET_ACCESS_KEY,
                                    aws_session_token |-> AWS_SESSION_TOKEN])),
                    logged |-> Append(s1.logged,
                        "Using AWS keys for authentication with AWS Bedrock")]
              ELSE s1
        s3 == IF AWS_LOGIN_STRATEGY = AWS_IAM_ROLE
              THEN [session |-> Some(Session(id, region_name, <<>>)),
                    logged |-> Append(s2.logged,
                        "Using IAM Role for authentication with AWS Bedrock")]
              ELSE s2
    IN  s3

\* lines 98-104: session.client('bedrock-runtime', config=Config(...))
BedrockClient(id, session) ==
    [id |-> id, service |-> "bedrock-runtime", session |-> session,
     config |-> ClientConfig]

\* ModelId.value of the members of src.utils.models.ModelId the callers pass
ModelIds ==
    {[name |-> "FOO", value |-> <<"f", "o", "o">>],
     [name |-> "BAR_V1", value |-> <<"b", "a", "r", ".", "v", "1">>]}

\* InferenceConfig values (temperature in tenths)
InferenceConfigs == {[temperature |-> 2, max_tokens |-> 100]}

\* ThinkingConfig values: a pydantic model, an object with fields
ThinkingConfigs ==
    {[cls |-> "ThinkingConfig",
      fields |-> [type |-> "enabled", budget_tokens |-> 1024]]}

\* ThinkingConfig.model_dump(): the dict of the model's fields
model_dump(obj) == obj.fields

EU_WEST_1 == <<"e", "u", "-", "w", "e", "s", "t", "-", "1">>
AP_SOUTH_1 == <<"a", "p", "-", "s", "o", "u", "t", "h", "-", "1">>

\* a client the caller built itself and passes as client= (id 0: not
\* allocated by this module)
CallerClient ==
    [id |-> 0, service |-> "bedrock-runtime",
     session |-> Session(0, AP_SOUTH_1, <<>>),
     config |-> [retries |-> [max_attempts |-> 4, mode |-> "standard"],
                 read_timeout |-> 30]]

\* boto3_kwargs dicts: empty, a region, and a keyword get_bedrock_client
\* does not take
EmptyKwargs == <<>>
RegionKwargs == [region_name |-> EU_WEST_1]
UnknownKwargs == [endpoint_url |-> <<"h">>]

BOTO3_CLIENT_WARNING == "BOTO3_CLIENT_WARNING"

\* the keyword names of get_bedrock_client, line 63
ClientKeywords == {"region_name"}

----------------------------------------------------------------------------
(* Calls.  A thread runs one call at a time; the steps are the places      *)
(* where another thread can run in between.                                *)

NoFrame ==
    [fn |-> "none", model_id |-> None, inference_config |-> None,
     client |-> None, boto3_kwargs |-> None, cross_region |-> None,
     thinking_config |-> None, region_arg |-> None,
     region_name |-> <<>>, session |-> None, logged |-> <<>>,
     mid |-> <<>>, cl |-> None, warned |-> <<>>, invoked |-> 0, owned |-> {}]

NoRet == [exc |-> "none", client |-> None, model |-> None]

\* line 113: cross_region: bool = False, for a call that omits it
CrossRegion(cross_region) == IF cross_region = None THEN FALSE ELSE cross_region[1]

\* a prefix added whatever the flag
RoutedModelIdAlways(model_id, cross_region) == <<"u", "s", ".">> \o model_id.value

\* line 130: f'us.{model_id.value}' if cross_region else model_id.value
RoutedModelId(model_id, cross_region) ==
    IF cross_region THEN <<"u", "s", ".">> \o model_id.value ELSE model_id.value

\* truth value of an Optional[dict]: neither None nor empty
TruthyKwargs(boto3_kwargs) ==
    boto3_kwargs # None /\ DOMAIN boto3_kwargs[1] # {}

\* no warning at all
WarningsOmitted(client, boto3_kwargs) == <<>>

\* lines 131-132: warnings.warn when both are truthy
Warnings(client, boto3_kwargs) ==
    IF client # None /\ TruthyKwargs(boto3_kwargs)
    THEN <<BOTO3_CLIENT_WARNING>> ELSE <<>>

\* line 133: boto3_kwargs or {}
KwargsOrEmpty(boto3_kwargs) ==
    IF TruthyKwargs(boto3_kwargs) THEN boto3_kwargs[1] ELSE EmptyKwargs

\* line 63: region_name defaults to the global AWS_REGION
RegionOf(kwargs) ==
    IF "region_name" \in DOMAIN kwargs THEN kwargs.region_name ELSE AWS_REGION

\* get_bedrock_client(region_name) or get_bedrock_client(): the call binds
\* its argument
CallGetBedrockClient(t, region) ==
    /\ importState = "loaded"
    /\ pc[t] = "idle"
    /\ frame' = [frame EXCEPT ![t] =
           [NoFrame EXCEPT !.fn = "get_bedrock_client",
                           !.region_arg = region,
                           !.region_name = IF region = None THEN AWS_REGION
                                           ELSE region[1],
                           !.invoked = 1]]
    /\ pc' = [pc EXCEPT ![t] = "gbc_session"]
    /\ UNCHANGED <<process, globals, heap, ret>>

\* get_chat_model(...), lines 108-133; an argument that is None is one the
\* call omits or passes as None.  The model id, the warning, and
\* either the caller's client or the call of get_bedrock_client, which
\* raises TypeError on a keyword it does not take
CallGetChatModel(t, model_id, inference_config, client, boto3_kwargs, cross_region, thinking_config) ==
    /\ importState = "loaded"
    /\ pc[t] = "idle"
    /\ LET kwargs == KwargsOrEmpty(boto3_kwargs)
           f0 == [NoFrame EXCEPT
                    !.fn = "get_chat_model",
                    !.model_id = Some(model_id),
                    !.inference_config = inference_config,
                    !.client = client,
                    !.boto3_kwargs = boto3_kwargs,
                    !.cross_region = cross_region,
                    !.thinking_config = thinking_config,
                    !.mid = RoutedModelId(model_id, CrossRegion(cross_region)),
                    !.warned = Warnings(client, boto3_kwargs)]
       IN  IF client # None
           THEN /\ frame' = [frame EXCEPT ![t] = [f0 EXCEPT !.cl = client]]
                /\ pc' = [pc EXCEPT ![t] = "gcm_build"]
                /\ ret' = ret
           ELSE IF ~(DOMAIN kwargs \subseteq ClientKeywords)
           THEN /\ frame' = [frame EXCEPT ![t] = [f0 EXCEPT !.invoked = 1]]
                /\ pc' = [pc EXCEPT ![t] = "done"]
                /\ ret' = [ret EXCEPT ![t] = [NoRet EXCEPT !.exc = "TypeError"]]
           ELSE /\ frame' = [frame EXCEPT ![t] =
                       [f0 EXCEPT !.invoked = 1,
                                  !.region_name = RegionOf(kwargs)]]
                /\ pc' = [pc EXCEPT ![t] = "gbc_session"]
                /\ ret' = ret
    /\ UNCHANGED <<process, globals, heap>>

\* get_bedrock_client, lines 75-96
GbcSession(t) ==
    /\ pc[t] = "gbc_session"
    /\ LET id == NewId(heap)
           b == SessionBranches(id, frame[t].region_name)
           made == IF b.session = None THEN {} ELSE {b.session[1].id}
       IN  /\ frame' = [frame EXCEPT ![t].session = b.session,
                                     ![t].logged = b.logged,
                                     ![t].owned = @ \cup made]
           /\ heap' = heap \cup made
    /\ pc' = [pc EXCEPT ![t] = "gbc_client"]
    /\ UNCHANGED <<process, globals, ret>>

\* get_bedrock_client, lines 98-106: None has no attribute 'client'
GbcClient(t) ==
    /\ pc[t] = "gbc_client"
    /\ IF frame[t].session = None
       THEN /\ ret' = [ret EXCEPT ![t] = [NoRet EXCEPT !.exc = "AttributeError"]]
            /\ pc' = [pc EXCEPT ![t] = "done"]
            /\ UNCHANGED <<frame, heap>>
       ELSE LET id == NewId(heap)
                bedrock_client == BedrockClient(id, frame[t].session[1])
            IN  /\ heap' = heap \cup {id}
                /\ IF frame[t].fn = "get_bedrock_client"
                   THEN /\ ret' = [ret EXCEPT ![t] =
                               [NoRet EXCEPT !.client = Some(bedrock_client)]]
                        /\ frame' = [frame EXCEPT ![t].owned = @ \cup {id}]
                        /\ pc' = [pc EXCEPT ![t] = "done"]
                   ELSE /\ frame' = [frame EXCEPT
                                       ![t].cl = Some(bedrock_client),
                                       ![t].owned = @ \cup {id}]
                        /\ pc' = [pc EXCEPT ![t] = "gcm_build"]
                        /\ ret' = ret
    /\ UNCHANGED <<process, globals>>

\* lines 135-138
AdditionalModelRequestFields(thinking_config) ==
    IF thinking_config # None
    THEN [thinking |-> model_dump(thinking_config[1])]
    ELSE <<>>

\* temperature and max_tokens passed in every case, None without a config
ChatModelKwargsAlways(mid, cl, inference_config, thinking_config) ==
    [model |-> mid, client |-> cl,
     temperature |-> IF inference_config = None THEN -1
                     ELSE inference_config[1].temperature,
     max_tokens |-> IF inference_config = None THEN -1
                    ELSE inference_config[1].max_tokens,
     additional_model_request_fields |->
         AdditionalModelRequestFields(thinking_config)]

\* lines 141-155: the keyword arguments ChatBedrockConverse is called with
ChatModelKwargs(mid, cl, inference_config, thinking_config) ==
    IF inference_config = None
    THEN [model |-> mid, client |-> cl,
          additional_model_request_fields |->
              AdditionalModelRequestFields(thinking_config)]
    ELSE [model |-> mid, client |-> cl,
          temperature |-> inference_config[1].temperature,
          max_tokens |-> inference_config[1].max_tokens,
          additional_model_request_fields |->
              AdditionalModelRequestFields(thinking_config)]

\* ChatBedrockConverse(**kwargs): the object keeps what it was built with
ChatBedrockConverse(kwargs) == [cls |-> "ChatBedrockConverse", kwargs |-> kwargs]

\* get_chat_model, lines 135-155
GcmBuild(t) ==
    /\ pc[t] = "gcm_build"
    /\ ret' = [ret EXCEPT ![t] =
           [NoRet EXCEPT !.model = Some(ChatBedrockConverse(
               ChatModelKwargs(frame[t].mid, frame[t].cl[1],
                               frame[t].inference_config,
                               frame[t].thinking_config)))]]
    /\ pc' = [pc EXCEPT ![t] = "done"]
    /\ UNCHANGED <<process, globals, heap, frame>>

\* the caller takes the result (or the exception) and lets go of it
Return(t) ==
    /\ pc[t] = "done"
    /\ heap' = heap \ frame[t].owned
    /\ frame' = [frame EXCEPT ![t] = NoFrame]
    /\ ret' = [ret EXCEPT ![t] = NoRet]
    /\ pc' = [pc EXCEPT ![t] = "idle"]
    /\ UNCHANGED <<process, globals>>

----------------------------------------------------------------------------
(* Specifications *)

NumThreads == 2
Threads == 1..NumThreads
MainThread == {t \in Threads : \A u \in Threads : t <= u}

Opt(S) == {None} \cup {Some(x) : x \in S}

EnvNames ==
    {"AWS_REGION", "AWS_LOGIN_STRATEGY", "AWS_PROFILE", "AWS_ACCESS_KEY_ID",
     "AWS_SECRET_ACCESS_KEY", "AWS_SESSION_TOKEN", "AWS_BEARER_TOKEN_BEDROCK"}

\* the environment in which each name of EnvNames is unset (None) or set
MkEnv(opts) == [n \in {m \in EnvNames : opts[m] # None} |-> opts[n][1]]

\* values the variables are given: the selector in several spellings, an
\* unknown one and the empty string; each credential empty or not
StrategyValues ==
    {AWS_SSO, AWS_KEYS, AWS_IAM_ROLE,
     <<"A", "W", "S", "_", "S", "S", "O">>,
     <<"o", "k", "t", "a">>,
     <<>>}
ProfileValues == {<<>>, <<"d", "e", "v">>}
KeyIdValues == {<<>>, <<"A", "K", "I", "A">>}
SecretValues == {<<>>, <<"s", "3", "c">>}
TokenValues == {<<>>, <<"t", "o", "k">>}
BearerValues == {<<"b", "r">>}
RegionValues == {AP_SOUTH_1}

InitRest ==
    /\ environ0 = environ
    /\ importState = "init"
    /\ importError = "none"
    /\ AWS_REGION = <<>>
    /\ AWS_LOGIN_STRATEGY = <<>>
    /\ AWS_PROFILE = <<>>
    /\ AWS_ACCESS_KEY_ID = <<>>
    /\ AWS_SECRET_ACCESS_KEY = <<>>
    /\ AWS_SESSION_TOKEN = <<>>
    /\ heap = {}
    /\ pc = [t \in Threads |-> "idle"]
    /\ frame = [t \in Threads |-> NoFrame]
    /\ ret = [t \in Threads |-> NoRet]

\* the process starts in any environment
Init ==
    /\ \E r \in Opt(RegionValues), s \in Opt(StrategyValues),
          p \in Opt(ProfileValues), k \in Opt(KeyIdValues),
          x \in Opt(SecretValues), o \in Opt(TokenValues),
          b \in Opt(BearerValues) :
          environ = MkEnv([AWS_REGION |-> r, AWS_LOGIN_STRATEGY |-> s,
                           AWS_PROFILE |-> p, AWS_ACCESS_KEY_ID |-> k,
                           AWS_SECRET_ACCESS_KEY |-> x, AWS_SESSION_TOKEN |-> o,
                           AWS_BEARER_TOKEN_BEDROCK |-> b])
    /\ InitRest

Step(t) == GbcSession(t) \/ GbcClient(t) \/ GcmBuild(t) \/ Return(t)

\* one thread, every argument
Next ==
    \/ ImportModule
    \/ \E t \in MainThread :
        \/ \E region \in Opt({EU_WEST_1}) : CallGetBedrockClient(t, region)
        \/ \E model_id \in ModelIds, inference_config \in Opt(InferenceConfigs),
              client \in Opt({CallerClient}),
              boto3_kwargs \in Opt({EmptyKwargs, RegionKwargs, UnknownKwargs}),
              cross_region \in Opt(BOOLEAN),
              thinking_config \in Opt(ThinkingConfigs) :
              CallGetChatModel(t, model_id, inference_config, client,
                               boto3_kwargs, cross_region, thinking_config)
        \/ Step(t)

Spec == Init /\ [][Next]_vars

\* several threads, in environments in which the import succeeds, one for
\* each strategy
InitThreads ==
    /\ \E s \in Opt({AWS_SSO, AWS_IAM_ROLE}) :
          environ = MkEnv([AWS_REGION |-> None, AWS_LOGIN_STRATEGY |-> s,
                           AWS_PROFILE |-> Some(<<"d", "e", "v">>),
                           AWS_ACCESS_KEY_ID |-> Some(<<"A", "K", "I", "A">>),
                           AWS_SECRET_ACCESS_KEY |-> Some(<<"s", "3", "c">>),
                           AWS_SESSION_TOKEN |-> Some(<<"t", "o", "k">>),
                           AWS_BEARER_TOKEN_BEDROCK |-> Some(<<"b", "r">>)])
    /\ InitRest

NextThreads ==
    \/ ImportModule
    \/ \E t \in Threads :
        \/ \E region \in Opt({EU_WEST_1}) : CallGetBedrockClient(t, region)
        \/ \E model_id \in {m \in ModelIds : m.name = "FOO"},
              client \in Opt({CallerClient}) :
              CallGetChatModel(t, model_id, None, client, None, Some(TRUE), None)
        \/ Step(t)

SpecThreads == InitThreads /\ [][NextThreads]_vars

----------------------------------------------------------------------------
(* Properties *)

\* the spec's ConfigurationError is the ValueError of lines 43, 47 and 54
ConfigurationError == ValueError

Imported == importState # "init"
Loaded == importState = "loaded"
Failed == importState = "failed" /\ importError = ConfigurationError

\* a variable of the starting environment that is set and not empty
Present0(n) == n \in DOMAIN environ0 /\ environ0[n] # <<>>
Set0(n) == n \in DOMAIN environ0

KeyNames == {"AWS_ACCESS_KEY_ID", "AWS_SECRET_ACCESS_KEY", "AWS_SESSION_TOKEN"}

\* the strategy the starting environment selects, as the load reads it
Selected0 ==
    IF Set0("AWS_LOGIN_STRATEGY") THEN Lower(environ0["AWS_LOGIN_STRATEGY"])
    ELSE AWS_KEYS

Required(strategy) ==
    IF strategy = AWS_SSO THEN {"AWS_PROFILE"}
    ELSE IF strategy = AWS_KEYS THEN KeyNames
    ELSE {}

\* C1: for each of the three strategies the load succeeds when every
\* required variable of the selected strategy is set and not empty, and
\* fails with ConfigurationError when one of them is unset or empty,
\* whatever the other variables are.
C1_LoadOutcome ==
    (Imported /\ Selected0 \in AwsLoginStrategyEnum) =>
        IF \A n \in Required(Selected0) : Present0(n)
        THEN Loaded /\ importError = "none"
        ELSE Failed

\* static keys selected, only the session token empty, everything else set
C1_Witness ==
    /\ Failed
    /\ Selected0 = AWS_KEYS
    /\ Present0("AWS_ACCESS_KEY_ID") /\ Present0("AWS_SECRET_ACCESS_KEY")
    /\ Set0("AWS_SESSION_TOKEN") /\ ~Present0("AWS_SESSION_TOKEN")
    /\ Present0("AWS_PROFILE")

\* C2 as stated: every value of AWS_LOGIN_STRATEGY other than the three
\* strings aws_sso, aws_keys, aws_iam_role makes the load fail.
C2_Original ==
    (Imported /\ Set0("AWS_LOGIN_STRATEGY")
        /\ environ0["AWS_LOGIN_STRATEGY"] \notin AwsLoginStrategyEnum) => Failed

\* C2 (amended): every value of AWS_LOGIN_STRATEGY whose lower-cased form is
\* not one of the three strings makes the load fail with ConfigurationError,
\* whatever the credential variables are; after a failed load no call runs
\* and no client or chat model exists; an unset variable selects aws_keys.
C2_UnrecognizedFails ==
    /\ (Imported /\ Set0("AWS_LOGIN_STRATEGY")
          /\ Lower(environ0["AWS_LOGIN_STRATEGY"]) \notin AwsLoginStrategyEnum)
        => Failed
    /\ importState = "failed" =>
          /\ heap = {}
          /\ \A t \in Threads : pc[t] = "idle" /\ ret[t] = NoRet
    /\ (Imported /\ ~Set0("AWS_LOGIN_STRATEGY")) => AWS_LOGIN_STRATEGY = AWS_KEYS

\* an unknown selector with every credential variable set
C2_Witness ==
    /\ Failed
    /\ Set0("AWS_LOGIN_STRATEGY")
    /\ environ0["AWS_LOGIN_STRATEGY"] = <<"o", "k", "t", "a">>
    /\ Present0("AWS_PROFILE")
    /\ \A n \in KeyNames : Present0(n)

\* C3: after a successful load, with static keys AWS_PROFILE and
\* AWS_BEARER_TOKEN_BEDROCK are absent from the environment, with SSO the
\* three key variables and AWS_BEARER_TOKEN_BEDROCK are absent, and the
\* selected strategy's own variables are as they were.
C3_Sanitized ==
    Loaded =>
        /\ AWS_LOGIN_STRATEGY = AWS_KEYS =>
            /\ {"AWS_PROFILE", "AWS_BEARER_TOKEN_BEDROCK"} \cap DOMAIN environ = {}
            /\ \A n \in KeyNames : n \in DOMAIN environ /\ environ[n] = environ0[n]
        /\ AWS_LOGIN_STRATEGY = AWS_SSO =>
            /\ (KeyNames \cup {"AWS_BEARER_TOKEN_BEDROCK"}) \cap DOMAIN environ = {}
            /\ "AWS_PROFILE" \in DOMAIN environ
            /\ environ["AWS_PROFILE"] = environ0["AWS_PROFILE"]

\* static keys loaded in an environment that had a profile and a bearer token
C3_Witness ==
    /\ Loaded
    /\ AWS_LOGIN_STRATEGY = AWS_KEYS
    /\ Present0("AWS_PROFILE")
    /\ Present0("AWS_BEARER_TOKEN_BEDROCK")

\* C10: a failed load leaves the environment exactly as it was, and a load
\* with the IAM role strategy removes no variable.
C10_ClearedOnlyAfterValidation ==
    /\ importState = "failed" => environ = environ0
    /\ (Loaded /\ AWS_LOGIN_STRATEGY = AWS_IAM_ROLE) => environ = environ0

\* SSO selected without a profile, in an environment holding everything the
\* SSO clean-up would pop
C10_Witness ==
    /\ Failed
    /\ Selected0 = AWS_SSO
    /\ ~Present0("AWS_PROFILE")
    /\ \A n \in KeyNames : Present0(n)
    /\ Present0("AWS_BEARER_TOKEN_BEDROCK")

\* thread t has finished a get_chat_model call that returned a chat model
ChatDone(t) ==
    pc[t] = "done" /\ frame[t].fn = "get_chat_model" /\ ret[t].model # None

\* thread t has finished a call, whatever it returned or raised
CallDone(t) == pc[t] = "done"

\* C4 as stated: a call with both a client and boto3_kwargs emits exactly
\* one warning.
C4_Original ==
    \A t \in Threads :
        (CallDone(t) /\ frame[t].fn = "get_chat_model"
            /\ frame[t].client # None /\ frame[t].boto3_kwargs # None)
        => Len(frame[t].warned) = 1

\* C4 (amended): a get_chat_model call with both a client and non-empty
\* boto3_kwargs emits exactly one warning, does not call
\* get_bedrock_client, builds no session or client, and returns a chat
\* model holding the supplied client; in general get_bedrock_client is
\* called once when no client is supplied and not at all when one is.
C4_SuppliedClientWins ==
    \A t \in Threads :
        (CallDone(t) /\ frame[t].fn = "get_chat_model") =>
            /\ (frame[t].client # None /\ frame[t].boto3_kwargs # None
                  /\ DOMAIN frame[t].boto3_kwargs[1] # {}) =>
                /\ frame[t].warned = <<BOTO3_CLIENT_WARNING>>
                /\ frame[t].invoked = 0
                /\ frame[t].owned = {}
                /\ ret[t].model # None
                /\ ret[t].model[1].kwargs.client = frame[t].client[1]
            /\ frame[t].client = None => frame[t].invoked = 1
            /\ frame[t].client # None =>
                /\ frame[t].invoked = 0
                /\ frame[t].owned = {}

\* a finished call that was given the caller's client and a region keyword
C4_Witness ==
    \E t \in Threads :
        /\ ChatDone(t)
        /\ frame[t].client = Some(CallerClient)
        /\ frame[t].boto3_kwargs = Some(RegionKwargs)
        /\ Len(frame[t].warned) = 1

C7_ConstructorKeywords ==
    \A t \in Threads :
        ChatDone(t) =>
            LET kw == ret[t].model[1].kwargs
                base == {"model", "client", "additional_model_request_fields"}
            IN  /\ frame[t].inference_config = None => DOMAIN kw = base
                /\ frame[t].inference_config # None =>
                    /\ DOMAIN kw = base \cup {"temperature", "max_tokens"}
                    /\ kw.temperature = frame[t].inference_config[1].temperature
                    /\ kw.max_tokens = frame[t].inference_config[1].max_tokens
                /\ frame[t].thinking_config = None =>
                    DOMAIN kw.additional_model_request_fields = {}
                /\ frame[t].thinking_config # None =>
                    /\ DOMAIN kw.additional_model_request_fields = {"thinking"}
                    /\ kw.additional_model_request_fields.thinking =
                           frame[t].thinking_config[1].fields

\* a chat model built with an inference config and a thinking config
C7_Witness ==
    \E t \in Threads :
        /\ ChatDone(t)
        /\ frame[t].inference_config # None
        /\ frame[t].thinking_config # None
        /\ ret[t].model[1].kwargs.temperature = 2
        /\ ret[t].model[1].kwargs.max_tokens = 100

\* the log line that names a strategy
StrategyLogLine(strategy) ==
    IF strategy = AWS_SSO
    THEN "Using SSO Profile-based authentication with AWS Bedrock"
    ELSE IF strategy = AWS_KEYS
    THEN "Using AWS keys for authentication with AWS Bedrock"
    ELSE "Using IAM Role for authentication with AWS Bedrock"

\* the credentials a strategy's session is built with
StrategyCredentials(strategy) ==
    IF strategy = AWS_SSO THEN [profile_name |-> AWS_PROFILE]
    ELSE IF strategy = AWS_KEYS
    THEN [aws_access_key_id |-> AWS_ACCESS_KEY_ID,
          aws_secret_access_key |-> AWS_SECRET_ACCESS_KEY,
          aws_session_token |-> AWS_SESSION_TOKEN]
    ELSE <<>>

\* thread t is in get_bedrock_client, or back from it, past lines 75-96
PastBranches(t) ==
    /\ pc[t] \in {"gbc_client", "gcm_build", "done"}
    /\ frame[t].invoked = 1
    /\ ret[t].exc # "TypeError"

\* the region a get_bedrock_client call was given
GivenRegion(t) ==
    IF frame[t].fn = "get_bedrock_client"
    THEN (IF frame[t].region_arg = None THEN AWS_REGION ELSE frame[t].region_arg[1])
    ELSE RegionOf(KwargsOrEmpty(frame[t].boto3_kwargs))

\* C9: every get_bedrock_client call takes exactly one branch: one log line,
\* naming the active strategy, and one session for the given region, with
\* the profile only for SSO, the three keys only for static keys and no
\* credentials for the IAM role; the session is never None at line 98.
C9_OneBranch ==
    \A t \in Threads :
        /\ ret[t].exc # "AttributeError"
        /\ PastBranches(t) =>
            /\ frame[t].logged = <<StrategyLogLine(AWS_LOGIN_STRATEGY)>>
            /\ frame[t].session # None
            /\ frame[t].session[1].region_name = GivenRegion(t)
            /\ DOMAIN frame[t].session[1].credentials =
                   DOMAIN StrategyCredentials(AWS_LOGIN_STRATEGY)
            /\ \A k \in DOMAIN StrategyCredentials(AWS_LOGIN_STRATEGY) :
                   frame[t].session[1].credentials[k] =
                       StrategyCredentials(AWS_LOGIN_STRATEGY)[k]

\* an IAM role call about to build its client from the session
C9_Witness ==
    \E t \in Threads :
        /\ pc[t] = "gbc_client"
        /\ AWS_LOGIN_STRATEGY = AWS_IAM_ROLE
        /\ frame[t].session # None
        /\ Present0("AWS_PROFILE")

\* the result of thread t's finished call is the one the call gives when
\* no other call runs: it is fixed by the arguments and the configuration
ResultAsAlone(t) ==
    LET expected(client) ==
            /\ client.service = "bedrock-runtime"
            /\ client.config = ClientConfig
            /\ client.session.region_name = GivenRegion(t)
            /\ DOMAIN client.session.credentials =
                   DOMAIN StrategyCredentials(AWS_LOGIN_STRATEGY)
            /\ \A k \in DOMAIN StrategyCredentials(AWS_LOGIN_STRATEGY) :
                   client.session.credentials[k] =
                       StrategyCredentials(AWS_LOGIN_STRATEGY)[k]
    IN  /\ ret[t].exc = "none"
        /\ frame[t].fn = "get_bedrock_client" =>
            /\ ret[t].client # None
            /\ expected(ret[t].client[1])
        /\ frame[t].fn = "get_chat_model" =>
            /\ ret[t].model # None
            /\ ret[t].model[1].kwargs.model =
                   (IF frame[t].cross_region = Some(TRUE)
                    THEN <<"u", "s", ".">> \o frame[t].model_id[1].value
                    ELSE frame[t].model_id[1].value)
            /\ IF frame[t].client # None
               THEN ret[t].model[1].kwargs.client = frame[t].client[1]
               ELSE expected(ret[t].model[1].kwargs.client)

\* the session and the client a finished get_bedrock_client made are two
\* new objects of this call, and no other thread's call holds either
FreshObjects(t) ==
    (CallDone(t) /\ frame[t].invoked = 1) =>
        LET client == IF frame[t].fn = "get_bedrock_client"
                      THEN ret[t].client[1] ELSE ret[t].model[1].kwargs.client
        IN  /\ frame[t].owned = {client.id, client.session.id}
            /\ client.id # client.session.id
            /\ client.id # CallerClient.id
            /\ client.session.id # CallerClient.session.id
            /\ \A u \in Threads \ {t} :
                   frame[u].owned \cap frame[t].owned = {}

C8_Safe ==
    \A t \in Threads :
        /\ FreshObjects(t)
        /\ CallDone(t) => ResultAsAlone(t)

\* C8: after the load the configuration and the environment never change,
\* under any interleaving of calls of any threads; every get_bedrock_client
\* call makes a new session and a new client that no other call holds; and
\* every call's result is the one it gives when it runs alone.
C8_ReadOnlyAndFresh ==
    /\ []C8_Safe
    /\ [][Loaded => /\ importState' = importState
                    /\ environ' = environ
                    /\ globals' = globals]_vars

\* two threads hold clients of two get_bedrock_client calls that overlapped
C8_Witness ==
    \E t, u \in Threads :
        /\ t # u
        /\ CallDone(t) /\ CallDone(u)
        /\ frame[t].fn = "get_bedrock_client"
        /\ frame[u].fn = "get_bedrock_client"
        /\ frame[t].region_arg = None /\ frame[u].region_arg = Some(EU_WEST_1)
        /\ ret[t].client[1].session.id < ret[u].client[1].session.id
        /\ ret[u].client[1].session.id < ret[t].client[1].id

====
